---- MODULE Spec2Model ----
(***************************************************************************)
(* Model of the chat worker of src/src/index.ts: the fetch router, the     *)
(* conversation pipeline buildModelInput (sanitise, window, format) and    *)
(* handleChatRequest (remote call, reply extraction, error normalising).   *)
(*                                                                         *)
(* Text that the code inspects or builds (message contents, the formatted  *)
(* input) is a sequence of one-character strings.  A JavaScript value is a *)
(* record tagged by t: "undef", "null", "num", "str", "text", "arr", "obj". *)
(***************************************************************************)
EXTENDS Integers, Sequences, FiniteSets, TLC

VARIABLES
    request,              \* the HTTP request: method, path, body
    pc,                   \* where the worker is
    raw,                  \* buildModelInput: the conversation it is given
    blockedUserContents,  \* buildModelInput: the set of blocked user texts
    i,                    \* buildModelInput: the loop index
    cleaned,              \* buildModelInput: the accumulator
    windowed,             \* buildModelInput: the windowed history
    instructions,         \* buildModelInput: the instructions it returns
    input,                \* buildModelInput: the input it returns
    aiRuns,               \* the calls made to env.AI.run, in order
    settled,              \* how the awaited remote call ended
    sent                  \* the responses returned, in order

vars == <<request, pc, raw, blockedUserContents, i, cleaned, windowed,
          instructions, input, aiRuns, settled, sent>>

----------------------------------------------------------------------------
(* Bounds of the model *)

\* longest arbitrary conversation given to buildModelInput on its own
MaxLen == 3
\* longest run of plain retained turns put in front of a short conversation
MaxPad == 17
\* longest conversation in the body of a request to the worker
MaxBody == 2

----------------------------------------------------------------------------
(* Configuration constants of the worker *)

MODEL_ID == "@cf/openai/gpt-oss-120b"
AI_GATEWAY_ID == "gpt-oss-gateway"
SYSTEM_PROMPT == "You are a helpful, friendly assistant. Provide concise and accurate responses."
SAFETY_SHIM == "If a user asks for illegal, violent, or harmful instructions, refuse briefly and suggest safer, educational alternatives."
\* the context window of buildModelInput, counted in messages
WindowSize == 16

----------------------------------------------------------------------------
(* Text *)

UpperCase == <<"A","B","C","D","E","F","G","H","I","J","K","L","M",
               "N","O","P","Q","R","S","T","U","V","W","X","Y","Z">>
LowerCase == <<"a","b","c","d","e","f","g","h","i","j","k","l","m",
               "n","o","p","q","r","s","t","u","v","w","x","y","z">>

\* case folding of one character, as the i flag of the pattern does
ToLower(c) ==
    IF \E k \in 1..26 : UpperCase[k] = c
    THEN LowerCase[CHOOSE k \in 1..26 : UpperCase[k] = c]
    ELSE c

\* the pattern /blocked by guardrails/i, its literal text
GuardrailPattern ==
    <<"b","l","o","c","k","e","d"," ","b","y"," ",
      "g","u","a","r","d","r","a","i","l","s">>

\* RegExp.test of a literal, case-insensitive pattern: it occurs somewhere
TestIgnoreCase(pattern, text) ==
    \E off \in 0..(Len(text) - Len(pattern)) :
        \A k \in 1..Len(pattern) : ToLower(text[off + k]) = pattern[k]

UserPrefix == <<"U","s","e","r",":"," ">>
AssistantPrefix == <<"A","s","s","i","s","t","a","n","t",":"," ">>
JoinSeparator == <<"\n","\n">>

\* Array.prototype.join over texts
RECURSIVE Join(_, _)
Join(parts, sep) ==
    IF parts = <<>> THEN <<>>
    ELSE IF Len(parts) = 1 THEN parts[1]
    ELSE parts[1] \o sep \o Join(Tail(parts), sep)

----------------------------------------------------------------------------
(* Messages *)

Empty == <<>>
Hi == <<"h","i">>
Notice == <<"B","l","o","c","k","e","d"," ","B","y"," ",
            "G","u","a","r","d","r","a","i","l","s","!">>
NearMiss == <<"b","l","o","c","k","e","d"," ","b","y"," ","g","u","a","r","d">>

Msg(role, content) == [role |-> role, content |-> content]

\* the messages conversations are drawn from; "tool" stands for a role the
\* formatter knows nothing of
Messages ==
    { Msg("system", Hi),
      Msg("user", Empty), Msg("user", Hi), Msg("user", Notice),
      Msg("assistant", Empty), Msg("assistant", Hi),
      Msg("assistant", Notice), Msg("assistant", NearMiss),
      Msg("tool", Hi) }

BodyMessages ==
    { Msg("system", Hi), Msg("user", Empty), Msg("user", Hi),
      Msg("assistant", Hi), Msg("assistant", Notice) }

SeqsUpTo(S, n) == UNION { [1..k -> S] : k \in 0..n }

\* a plain retained turn whose content tells its position
PadMsg(k) ==
    Msg(IF k % 2 = 1 THEN "user" ELSE "assistant",
        <<LowerCase[((k - 1) % 26) + 1]>>)
Pad(n) == [k \in 1..n |-> PadMsg(k)]

BlockedLists == { <<>>, <<Hi>> }

----------------------------------------------------------------------------
(* buildModelInput *)

IsSystem_Never(m) == FALSE
IsSystem(m) == m.role = "system"

IsBlockedUser(m, blocked) == m.role = "user" /\ m.content \in blocked

looksLikeGuardrailNotice(m) ==
    m.role = "assistant" /\ TestIgnoreCase(GuardrailPattern, m.content)

\* cleaned after the guardrail branch: the last entry goes if it is a user's
PopPrecedingUser_Always(acc) ==
    IF Len(acc) > 0 THEN SubSeq(acc, 1, Len(acc) - 1) ELSE acc
PopPrecedingUser(acc) ==
    IF Len(acc) > 0 /\ acc[Len(acc)].role = "user"
    THEN SubSeq(acc, 1, Len(acc) - 1)
    ELSE acc

InLoop == pc = "loop" /\ i < Len(raw)

LoopFrame ==
    UNCHANGED <<request, pc, raw, blockedUserContents, windowed, instructions,
                input, aiRuns, settled, sent>>

SkipSystem ==
    /\ InLoop
    /\ IsSystem(raw[i + 1])
    /\ i' = i + 1
    /\ cleaned' = cleaned
    /\ LoopFrame

SkipBlockedUser ==
    /\ InLoop
    /\ ~IsSystem(raw[i + 1])
    /\ IsBlockedUser(raw[i + 1], blockedUserContents)
    /\ i' = i + 1
    /\ cleaned' = cleaned
    /\ LoopFrame

DropGuardrailNotice ==
    /\ InLoop
    /\ ~IsSystem(raw[i + 1])
    /\ ~IsBlockedUser(raw[i + 1], blockedUserContents)
    /\ looksLikeGuardrailNotice(raw[i + 1])
    /\ i' = i + 1
    /\ cleaned' = PopPrecedingUser(cleaned)
    /\ LoopFrame

KeepMessage ==
    /\ InLoop
    /\ ~IsSystem(raw[i + 1])
    /\ ~IsBlockedUser(raw[i + 1], blockedUserContents)
    /\ ~looksLikeGuardrailNotice(raw[i + 1])
    /\ i' = i + 1
    /\ cleaned' = Append(cleaned, raw[i + 1])
    /\ LoopFrame

\* the context window: the trailing WindowSize entries
Window_Leading(c) ==
    IF Len(c) > WindowSize THEN SubSeq(c, 1, WindowSize) ELSE c
Window(c) ==
    IF Len(c) > WindowSize
    THEN SubSeq(c, Len(c) - WindowSize + 1, Len(c))
    ELSE c

Render_NoPrefix(m) ==
    IF m.role = "user" THEN m.content
    ELSE IF m.role = "assistant" THEN m.content
    ELSE <<>>
Render(m) ==
    IF m.role = "user" THEN UserPrefix \o m.content
    ELSE IF m.role = "assistant" THEN AssistantPrefix \o m.content
    ELSE <<>>

NonEmptyText(t) == t # <<>>

FormatInput(w) ==
    IF Len(w) = 1 /\ w[1].role = "user"
    THEN w[1].content
    ELSE Join(SelectSeq([k \in 1..Len(w) |-> Render(w[k])], NonEmptyText),
              JoinSeparator)

\* the template `${SYSTEM_PROMPT}\n\nSafety: ${SAFETY_SHIM}`, piece by piece
Instructions == <<SYSTEM_PROMPT, "\n\nSafety: ", SAFETY_SHIM>>

\* the rest of buildModelInput once the loop has ended
WindowAndFormat ==
    /\ pc = "loop"
    /\ i = Len(raw)
    /\ windowed' = Window(cleaned)
    /\ input' = FormatInput(Window(cleaned))
    /\ instructions' = Instructions
    /\ pc' = "built"
    /\ UNCHANGED <<request, raw, blockedUserContents, i, cleaned, aiRuns,
                   settled, sent>>

----------------------------------------------------------------------------
(* JavaScript values *)

Undef == [t |-> "undef"]
Null == [t |-> "null"]
Num(n) == [t |-> "num", v |-> n]
Str(s) == [t |-> "str", v |-> s]
Arr(s) == [t |-> "arr", v |-> s]
\* a string given by its segments (the message of a failure)
Text(segs) == [t |-> "text", v |-> segs]

\* typeof x === "string"
TypeofString(x) == x.t \in {"str", "text"}

\* ToBoolean
Truthy(x) ==
    CASE x.t = "undef" -> FALSE
      [] x.t = "null" -> FALSE
      [] x.t = "num" -> x.v # 0
      [] x.t = "str" -> x.v # ""
      [] x.t = "text" -> x.v # <<>>
      [] OTHER -> TRUE

IsArray(x) == x.t = "arr"

\* typeof x === "object"
TypeofObject(x) == x.t \in {"obj", "arr", "null"}

\* a property read x.k on a value that is neither null nor undefined
Get(x, k) == IF x.t = "obj" /\ k \in DOMAIN x THEN x[k] ELSE Undef

\* x[0]
First(x) == IF x.t = "arr" /\ Len(x.v) > 0 THEN x.v[1] ELSE Undef

\* x?.k
OptGet(x, k) == IF x.t \in {"undef", "null"} THEN Undef ELSE Get(x, k)

\* arr.find((item) => item.type === ty): reading .type of a null or undefined
\* item throws a TypeError
Find(arr, ty) ==
    LET stops == { k \in 1..Len(arr) :
                     \/ arr[k].t \in {"undef", "null"}
                     \/ Get(arr[k], "type") = Str(ty) }
    IN  IF stops = {} THEN [threw |-> FALSE, value |-> Undef]
        ELSE LET k == CHOOSE n \in stops : \A m \in stops : n <= m
             IN  IF arr[k].t \in {"undef", "null"}
                 THEN [threw |-> TRUE, value |-> Undef]
                 ELSE [threw |-> FALSE, value |-> arr[k]]

----------------------------------------------------------------------------
(* Responses *)

\* the Headers of a Response store their names in lower case
HeaderName(n) == IF n = "Content-Type" THEN "content-type" ELSE n

JsonResponse_NoHeader(status, name, body) ==
    [status |-> status,
     headers |-> {},
     body |-> [kind |-> "json", value |-> body]]
\* new Response(JSON.stringify(body), { status, headers: { [name]: "application/json" } })
JsonResponse(status, name, body) ==
    [status |-> status,
     headers |-> { <<HeaderName(name), "application/json">> },
     body |-> [kind |-> "json", value |-> body]]

\* new Response(text, { status }): a string body gets the text content type
TextResponse(status, text) ==
    [status |-> status,
     headers |-> { <<"content-type", "text/plain;charset=UTF-8">> },
     body |-> [kind |-> "text", value |-> text]]

\* what env.ASSETS.fetch may answer: a page, or its own not-found page
AssetResponses ==
    { [status |-> st,
       headers |-> { <<"content-type", "text/html">> },
       body |-> [kind |-> "asset", value |-> "html"]] : st \in {200, 404} }

----------------------------------------------------------------------------
(* Replies of the remote model *)

FallbackText == "Error: Could not parse AI response"

OutputText(text) == [t |-> "obj", type |-> Str("output_text"), text |-> text]
OtherEntry == [t |-> "obj", type |-> Str("refusal"), text |-> Str("TX")]
Item(type, content) == [t |-> "obj", type |-> Str(type), content |-> content]

Outputs ==
    { Undef,
      Arr(<<Item("reasoning", Undef)>>),
      Arr(<<Item("reasoning", Undef),
            Item("message", Arr(<<OtherEntry, OutputText(Str("T2"))>>))>>),
      Arr(<<Item("message", Arr(<<OutputText(Str(""))>>))>>),
      Arr(<<Item("message", Undef),
            Item("message", Arr(<<OutputText(Str("T2"))>>))>>),
      Arr(<<Null>>) }

Choice(content) ==
    [t |-> "obj", message |-> [t |-> "obj", content |-> content]]

ObjectReplies ==
    [ t : {"obj"},
      output : Outputs,
      response : {Undef, Str(""), Str("T3")},
      content : {Undef, Str("T4")},
      choices : {Undef, Arr(<<Choice(Str("T5"))>>)},
      result : {Undef, [t |-> "obj", response |-> Str("T6")]} ]

Replies ==
    ObjectReplies \cup { Str("T1"), Str(""), Null, Undef, Num(42), Arr(<<>>) }

\* the text of the GPT-OSS-120b format: output -> message -> output_text
FromOutput(resp) ==
    LET out == Get(resp, "output") IN
    IF ~(Truthy(out) /\ IsArray(out))
    THEN [threw |-> FALSE, value |-> Str("")]
    ELSE
      LET messageOutput == Find(out.v, "message") IN
      IF messageOutput.threw THEN [threw |-> TRUE, value |-> Str("")]
      ELSE
        LET content == OptGet(messageOutput.value, "content") IN
        IF ~(Truthy(messageOutput.value) /\ Truthy(content) /\ IsArray(content))
        THEN [threw |-> FALSE, value |-> Str("")]
        ELSE
          LET textContent == Find(content.v, "output_text") IN
          IF textContent.threw THEN [threw |-> TRUE, value |-> Str("")]
          ELSE IF Truthy(textContent.value)
                  /\ Truthy(Get(textContent.value, "text"))
               THEN [threw |-> FALSE, value |-> Get(textContent.value, "text")]
               ELSE [threw |-> FALSE, value |-> Str("")]

\* the fallback formats, tried when the output format gave no text
Fallbacks(resp) ==
    IF Truthy(Get(resp, "response")) THEN Get(resp, "response")
    ELSE IF Truthy(Get(resp, "content")) THEN Get(resp, "content")
    ELSE IF Truthy(Get(resp, "choices"))
            /\ Truthy(OptGet(OptGet(First(Get(resp, "choices")), "message"), "content"))
         THEN OptGet(OptGet(First(Get(resp, "choices")), "message"), "content")
    ELSE IF Truthy(Get(resp, "result"))
            /\ Truthy(Get(Get(resp, "result"), "response"))
         THEN Get(Get(resp, "result"), "response")
    ELSE Str(FallbackText)

ExtractText_FallbacksFirst(aiResponse) ==
    IF aiResponse.t = "str" THEN [threw |-> FALSE, value |-> aiResponse]
    ELSE IF Truthy(aiResponse) /\ TypeofObject(aiResponse)
    THEN IF Fallbacks(aiResponse) # Str(FallbackText)
         THEN [threw |-> FALSE, value |-> Fallbacks(aiResponse)]
         ELSE LET fromOutput == FromOutput(aiResponse) IN
              IF fromOutput.threw \/ Truthy(fromOutput.value) THEN fromOutput
              ELSE [threw |-> FALSE, value |-> Str(FallbackText)]
    ELSE [threw |-> FALSE, value |-> Str("")]
\* responseText after the extraction, or the TypeError it threw
ExtractText(aiResponse) ==
    IF aiResponse.t = "str" THEN [threw |-> FALSE, value |-> aiResponse]
    ELSE IF Truthy(aiResponse) /\ TypeofObject(aiResponse)
    THEN LET fromOutput == FromOutput(aiResponse) IN
         IF fromOutput.threw THEN fromOutput
         ELSE IF ~Truthy(fromOutput.value)
              THEN [threw |-> FALSE, value |-> Fallbacks(aiResponse)]
              ELSE fromOutput
    ELSE [threw |-> FALSE, value |-> Str("")]

----------------------------------------------------------------------------
(* Failures and the catch block of handleChatRequest *)

\* The message of a failure is a sequence of segments: "words" is text with
\* no brace and no line break, "nl" a line break, "json" a JSON object
\* written on one line, "jsonlines" a JSON object pretty-printed with one
\* brace per line.
Words == [kind |-> "words", value |-> Undef]
NL == [kind |-> "nl", value |-> Undef]
Json(obj) == [kind |-> "json", value |-> obj]
JsonLines(obj) == [kind |-> "jsonlines", value |-> obj]

Descriptor(code) == [t |-> "obj", code |-> code, message |-> Str("x")]
ErrorBody(err) == [t |-> "obj", error |-> err]

Codes == { Num(2016), Num(2017), Num(2000), Str("2016"), Undef }

Payloads ==
    { ErrorBody(Arr(<<Descriptor(c)>>)) : c \in Codes }
    \cup { ErrorBody(Arr(<<Descriptor(Num(2000)), Descriptor(Num(2016))>>)),
           ErrorBody(Arr(<<>>)), ErrorBody(Arr(<<Null>>)),
           ErrorBody(Str("boom")), ErrorBody(Undef) }

Blocked2016 == ErrorBody(Arr(<<Descriptor(Num(2016))>>))
Blocked2017 == ErrorBody(Arr(<<Descriptor(Num(2017))>>))

ErrorMessages ==
    { <<>>, <<Words>>, <<Words, NL, Words>> }
    \cup { <<Json(p)>> : p \in Payloads }
    \cup { <<Words, Json(p), Words>> : p \in Payloads }
    \cup { <<Json(Blocked2016), Words, Json(p)>> : p \in {Blocked2017, ErrorBody(Undef)} }
    \cup { <<Json(p), NL, Json(Blocked2016)>> : p \in {Blocked2017, ErrorBody(Undef)} }
    \cup { <<JsonLines(Blocked2016)>>, <<JsonLines(Blocked2017), Json(Blocked2016)>>,
           <<Words, NL, Json(Blocked2017), NL, Words>> }

ErrorObject(message) == [t |-> "obj", message |-> message]

\* what env.AI.run may throw
Failures ==
    { ErrorObject(Text(m)) : m \in ErrorMessages }
    \cup { ErrorObject(Undef), ErrorObject(Num(7)), Str("boom"), Null }

SyntaxError == ErrorObject(Text(<<Words>>))
TypeError == ErrorObject(Text(<<Words>>))

\* message.match(/\{.*\}/): from the first brace that has a closing brace
\* after it on its line to the last closing brace of that line
Match(segs) ==
    LET starts == { k \in 1..Len(segs) : segs[k].kind = "json" } IN
    IF starts = {} THEN <<>>
    ELSE LET s == CHOOSE n \in starts : \A m \in starts : n <= m
             sameLine(k) == \A j \in s..k : segs[j].kind \in {"words", "json"}
             ends == { k \in starts : sameLine(k) }
             e == CHOOSE n \in ends : \A m \in ends : m <= n
         IN  SubSeq(segs, s, e)

\* JSON.parse: one JSON object and nothing else, or a SyntaxError
JsonParse(text) ==
    IF Len(text) = 1 /\ text[1].kind = "json"
    THEN [threw |-> FALSE, value |-> text[1].value]
    ELSE [threw |-> TRUE, value |-> Undef]

\* gatewayError after the inner try block
GatewayError(errorObj) ==
    LET message == Get(errorObj, "message") IN
    IF ~(Truthy(message) /\ TypeofString(message)) THEN Null
    ELSE LET jsonMatch == Match(message.v) IN
         IF jsonMatch = <<>> THEN Null
         ELSE LET parsed == JsonParse(jsonMatch) IN
              IF parsed.threw THEN Null
              ELSE IF Truthy(Get(parsed.value, "error"))
                      /\ IsArray(Get(parsed.value, "error"))
                   THEN First(Get(parsed.value, "error"))
                   ELSE Null

\* the two long texts of details are cut to their first words
PromptBlockedBody ==
    [error |-> "Prompt Blocked by Security Policy",
     errorType |-> "prompt_blocked",
     details |-> IF AI_GATEWAY_ID # ""
                 THEN "Your message was blocked by your organization's AI Gateway security policy."
                 ELSE "Your message was blocked due to security policy.",
     usingGateway |-> AI_GATEWAY_ID # ""]

ResponseBlockedBody ==
    [error |-> "Response Blocked by Security Policy",
     errorType |-> "response_blocked",
     details |-> IF AI_GATEWAY_ID # ""
                 THEN "The AI's response was blocked by your organization's AI Gateway security policy."
                 ELSE "The AI's response was blocked due to security policy.",
     usingGateway |-> AI_GATEWAY_ID # ""]

GenericErrorBody == [error |-> "Failed to process request"]

IsCode_Loose(gatewayError, code) ==
    /\ Truthy(gatewayError)
    /\ Get(gatewayError, "code") \in {Num(code), Str("2016")}
\* gatewayError && gatewayError.code === code
IsCode(gatewayError, code) ==
    Truthy(gatewayError) /\ Get(gatewayError, "code") = Num(code)

\* the response of the catch block
Catch(error) ==
    IF Truthy(error) /\ TypeofObject(error)
    THEN LET gatewayError == GatewayError(error) IN
         IF IsCode(gatewayError, 2016)
         THEN JsonResponse(400, "Content-Type", PromptBlockedBody)
         ELSE IF IsCode(gatewayError, 2017)
         THEN JsonResponse(400, "Content-Type", ResponseBlockedBody)
         ELSE JsonResponse(500, "content-type", GenericErrorBody)
    ELSE JsonResponse(500, "content-type", GenericErrorBody)

----------------------------------------------------------------------------
(* The worker *)

Methods == {"GET", "POST"}
Paths == {"/", "/index.html", "/api/chat", "/api/other"}

\* url.pathname.startsWith("/api/")
StartsWithApi(path) == path \in {"/api/chat", "/api/other"}

NoBody == [valid |-> TRUE, messages |-> Undef, blockedUserContents |-> Undef]
BadBody == [valid |-> FALSE, messages |-> Undef, blockedUserContents |-> Undef]

Bodies ==
    { [valid |-> TRUE, messages |-> Arr(m), blockedUserContents |-> Arr(b)] :
        m \in SeqsUpTo(BodyMessages, MaxBody), b \in BlockedLists }
    \cup { [valid |-> TRUE, messages |-> Str("none"), blockedUserContents |-> Str("none")],
           NoBody, BadBody }

Requests ==
    { [method |-> "POST", path |-> "/api/chat", body |-> b] : b \in Bodies }
    \cup { [method |-> m, path |-> p, body |-> NoBody] :
             m \in Methods, p \in Paths }

\* Array.isArray(x) ? x : []
ArrayOrEmpty(x) == IF IsArray(x) THEN x.v ELSE <<>>

\* new Set(array)
SetOf(s) == { s[k] : k \in 1..Len(s) }

Idle ==
    /\ raw = <<>> /\ blockedUserContents = {} /\ i = 0 /\ cleaned = <<>>
    /\ windowed = <<>> /\ instructions = <<>> /\ input = <<>>
    /\ aiRuns = <<>> /\ settled = [kind |-> "none", value |-> Undef]
    /\ sent = <<>>

Init ==
    /\ request \in Requests
    /\ pc = "fetch"
    /\ Idle

FetchFrame ==
    UNCHANGED <<request, raw, blockedUserContents, i, cleaned, windowed,
                instructions, input, aiRuns, settled>>

ServeAsset ==
    /\ pc = "fetch"
    /\ request.path = "/" \/ ~StartsWithApi(request.path)
    /\ \E r \in AssetResponses : sent' = Append(sent, r)
    /\ pc' = "done"
    /\ FetchFrame

MethodNotAllowed ==
    /\ pc = "fetch"
    /\ ~(request.path = "/" \/ ~StartsWithApi(request.path))
    /\ request.path = "/api/chat"
    /\ request.method # "POST"
    /\ sent' = Append(sent, TextResponse(405, "Method not allowed"))
    /\ pc' = "done"
    /\ FetchFrame

EnterChat ==
    /\ pc = "fetch"
    /\ ~(request.path = "/" \/ ~StartsWithApi(request.path))
    /\ request.path = "/api/chat"
    /\ request.method = "POST"
    /\ pc' = "handler"
    /\ UNCHANGED sent
    /\ FetchFrame

NotFound ==
    /\ pc = "fetch"
    /\ ~(request.path = "/" \/ ~StartsWithApi(request.path))
    /\ request.path # "/api/chat"
    /\ sent' = Append(sent, TextResponse(404, "Not found"))
    /\ pc' = "done"
    /\ FetchFrame

\* request.json() rejects: the catch block answers
ReadBodyFails ==
    /\ pc = "handler"
    /\ ~request.body.valid
    /\ sent' = Append(sent, Catch(SyntaxError))
    /\ pc' = "done"
    /\ FetchFrame

\* the body is read and buildModelInput is entered
ReadBody ==
    /\ pc = "handler"
    /\ request.body.valid
    /\ raw' = ArrayOrEmpty(request.body.messages)
    /\ blockedUserContents' = SetOf(ArrayOrEmpty(request.body.blockedUserContents))
    /\ i' = 0
    /\ cleaned' = <<>>
    /\ pc' = "loop"
    /\ UNCHANGED <<request, windowed, instructions, input, aiRuns, settled, sent>>

GatewayOptions ==
    IF AI_GATEWAY_ID # ""
    THEN { <<"gateway", [id |-> AI_GATEWAY_ID, skipCache |-> FALSE, cacheTtl |-> 3600]>> }
    ELSE {}

\* env.AI.run(MODEL_ID, aiOptions, runOptions) is called and awaited
RunModel ==
    /\ pc = "built"
    /\ aiRuns' = Append(aiRuns, [model |-> MODEL_ID,
                                 aiOptions |-> [input |-> input],
                                 runOptions |-> GatewayOptions])
    /\ pc' = "awaiting"
    /\ UNCHANGED <<request, raw, blockedUserContents, i, cleaned, windowed,
                   instructions, input, settled, sent>>

SuccessBody(text) == [response |-> text, success |-> TRUE]

\* the handler from the resolved call to its response
Respond(aiResponse) ==
    LET responseText == ExtractText(aiResponse) IN
    IF responseText.threw THEN Catch(TypeError)
    ELSE JsonResponse(200, "Content-Type", SuccessBody(responseText.value))

\* the awaited call resolves and the handler answers
AiResolves ==
    /\ pc = "awaiting"
    /\ \E reply \in Replies :
         /\ settled' = [kind |-> "resolved", value |-> reply]
         /\ sent' = Append(sent, Respond(reply))
    /\ pc' = "done"
    /\ UNCHANGED <<request, raw, blockedUserContents, i, cleaned, windowed,
                   instructions, input, aiRuns>>

AiRejects_Retry ==
    /\ pc = "awaiting"
    /\ \E error \in Failures :
         /\ settled' = [kind |-> "rejected", value |-> error]
         /\ IF Len(aiRuns) < 2
            THEN pc' = "built" /\ sent' = sent
            ELSE pc' = "done" /\ sent' = Append(sent, Catch(error))
    /\ UNCHANGED <<request, raw, blockedUserContents, i, cleaned, windowed,
                   instructions, input, aiRuns>>
\* the awaited call rejects and the catch block answers
AiRejects ==
    /\ pc = "awaiting"
    /\ \E error \in Failures :
         /\ settled' = [kind |-> "rejected", value |-> error]
         /\ sent' = Append(sent, Catch(error))
    /\ pc' = "done"
    /\ UNCHANGED <<request, raw, blockedUserContents, i, cleaned, windowed,
                   instructions, input, aiRuns>>

BuildInput ==
    \/ SkipSystem
    \/ SkipBlockedUser
    \/ DropGuardrailNotice
    \/ KeepMessage
    \/ WindowAndFormat

Next ==
    \/ ServeAsset
    \/ MethodNotAllowed
    \/ EnterChat
    \/ NotFound
    \/ ReadBodyFails
    \/ ReadBody
    \/ BuildInput
    \/ RunModel
    \/ AiResolves
    \/ AiRejects

Spec == Init /\ [][Next]_vars

\* the platform runs the worker on, and the remote call settles
FairSpec == Spec /\ WF_vars(Next)

----------------------------------------------------------------------------
(* buildModelInput on its own, over longer and richer conversations *)

Conversations ==
    SeqsUpTo(Messages, MaxLen)
    \cup { Pad(n) \o tail : n \in 0..MaxPad, tail \in SeqsUpTo(Messages, 1) }

InitBuild ==
    /\ \E conv \in Conversations, b \in BlockedLists :
         /\ request = [method |-> "POST", path |-> "/api/chat",
                       body |-> [valid |-> TRUE, messages |-> Arr(conv),
                                 blockedUserContents |-> Arr(b)]]
         /\ raw = conv
         /\ blockedUserContents = SetOf(b)
    /\ pc = "loop"
    /\ i = 0 /\ cleaned = <<>>
    /\ windowed = <<>> /\ instructions = <<>> /\ input = <<>>
    /\ aiRuns = <<>> /\ settled = [kind |-> "none", value |-> Undef]
    /\ sent = <<>>

SpecBuild == InitBuild /\ [][BuildInput]_vars

----------------------------------------------------------------------------
(* Properties of buildModelInput, checked under SpecBuild *)

Last(s) == s[Len(s)]
Front(s) == SubSeq(s, 1, Len(s) - 1)

\* the loop is about to handle a guardrail notice: an assistant message that
\* matches the pattern, at raw[i + 1]
AtNotice == InLoop /\ looksLikeGuardrailNotice(raw[i + 1])

\* the message right before the notice in the input is a user's
PrecededByUser == i >= 1 /\ raw[i].role = "user"

\* C1 as stated: when a guardrail notice is dropped, the message right before
\* it in the input is removed if it is user-role, and if the notice is
\* preceded by a non-user message or by nothing no other message is removed.
C1_AsStated ==
    [][AtNotice /\ i' = i + 1 =>
         IF PrecededByUser
         THEN \/ raw[i].content \in blockedUserContents
              \/ (cleaned # <<>> /\ Last(cleaned) = raw[i] /\ cleaned' = Front(cleaned))
         ELSE cleaned' = cleaned]_vars

\* C1 amended: when a guardrail notice is dropped, the last entry of the
\* accumulator (the nearest earlier message still retained) is removed if and
\* only if it is user-role, and nothing else changes; a user-role message
\* right before the notice in the input is never in the result.
C1_PairedRemoval ==
    [][AtNotice /\ i' = i + 1 =>
         /\ (cleaned # <<>> /\ Last(cleaned).role = "user"
               => cleaned' = Front(cleaned))
         /\ (cleaned = <<>> \/ Last(cleaned).role # "user"
               => cleaned' = cleaned)
         /\ (PrecededByUser =>
               \/ raw[i].content \in blockedUserContents
               \/ (cleaned # <<>> /\ Last(cleaned) = raw[i] /\ cleaned' = Front(cleaned)))]_vars

\* a notice that follows a system message has removed the user turn before
\* that system message
C1_Witness ==
    /\ pc = "loop" /\ i = 3
    /\ raw[1] = Msg("user", Hi) /\ raw[2].role = "system"
    /\ looksLikeGuardrailNotice(raw[3])
    /\ blockedUserContents = {}
    /\ cleaned = <<>>

\* C2: neither the accumulator, at any point of the loop, nor the windowed
\* history ever holds a system-role message.
C2_NoSystemMessage ==
    /\ \A k \in 1..Len(cleaned) : cleaned[k].role # "system"
    /\ \A k \in 1..Len(windowed) : windowed[k].role # "system"

C2_Witness ==
    /\ pc = "built"
    /\ \E k \in 1..Len(raw) : raw[k].role = "system"
    /\ windowed # <<>>

\* C3: the windowed history has at most 16 entries; it is the sanitised
\* history when that has 16 entries or fewer, and otherwise exactly its last
\* 16 entries in their order.
C3_Window ==
    pc = "built" =>
      /\ Len(windowed) <= 16
      /\ (Len(cleaned) <= 16 => windowed = cleaned)
      /\ (Len(cleaned) > 16 =>
            /\ Len(windowed) = 16
            /\ \A k \in 1..16 : windowed[k] = cleaned[Len(cleaned) - 16 + k])

C3_Witness ==
    /\ pc = "built"
    /\ Len(cleaned) = 18
    /\ windowed[1] = cleaned[3]
    /\ windowed[16] = cleaned[18]

\* C4 as stated: the input is empty only if the windowed history is empty.
C4_AsStated ==
    pc = "built" /\ input = <<>> => windowed = <<>>

\* C4 amended: the input is empty only if the windowed history is empty, or
\* is a single user message with empty content, or holds no user or
\* assistant message at all.
C4_EmptyInput ==
    pc = "built" /\ input = <<>> =>
      \/ windowed = <<>>
      \/ windowed = <<Msg("user", <<>>)>>
      \/ \A k \in 1..Len(windowed) : windowed[k].role \notin {"user", "assistant"}

C4_Witness ==
    /\ pc = "built"
    /\ windowed = <<Msg("user", <<>>)>>
    /\ input = <<>>

----------------------------------------------------------------------------
(* Properties of the worker, checked under Spec and FairSpec *)

IsChatRequest == request.path = "/api/chat" /\ request.method = "POST"

\* C5 as stated: every call to the remote model receives both the
\* instructions and the input that buildModelInput returned.
C5_AsStated ==
    \A k \in 1..Len(aiRuns) :
        /\ aiRuns[k].aiOptions.input = input
        /\ "instructions" \in DOMAIN aiRuns[k].aiOptions
        /\ aiRuns[k].aiOptions.instructions = instructions

\* the code of the gateway error descriptor a failure carries: the first
\* entry of the error list of the one JSON object on a line of its message
EmbeddedCode(error) ==
    IF error.t # "obj" THEN Undef
    ELSE IF error.message.t # "text" THEN Undef
    ELSE
      LET segs == error.message.v
          objs == { k \in 1..Len(segs) : segs[k].kind = "json" }
      IN  IF objs = {} THEN Undef
          ELSE
            LET s == CHOOSE n \in objs : \A m \in objs : n <= m
                crowded == \E k \in objs :
                              /\ k > s
                              /\ \A j \in s..k : segs[j].kind \notin {"nl", "jsonlines"}
                list == segs[s].value.error
            IN  IF crowded THEN Undef
                ELSE IF list.t = "arr" /\ Len(list.v) > 0 /\ list.v[1].t = "obj"
                     THEN list.v[1].code
                     ELSE Undef

\* C6: after a failed remote call the response follows the embedded gateway
\* code: 2016 gives 400 prompt_blocked, 2017 gives 400 response_blocked, and
\* anything else (another code, no list, an unparsable message) gives the
\* generic 500; a response is always given.
C6_ErrorNormalised ==
    pc = "done" /\ settled.kind = "rejected" =>
      /\ Len(sent) = 1
      /\ LET code == EmbeddedCode(settled.value)
             r == sent[1]
         IN  /\ code = Num(2016) =>
                   r.status = 400 /\ r.body.value = PromptBlockedBody
             /\ code = Num(2017) =>
                   r.status = 400 /\ r.body.value = ResponseBlockedBody
             /\ code \notin {Num(2016), Num(2017)} =>
                   r.status = 500 /\ r.body.value = GenericErrorBody

C6_Witness ==
    /\ pc = "done"
    /\ settled = [kind |-> "rejected",
                  value |-> ErrorObject(Text(<<Words, Json(Blocked2016), Words>>))]
    /\ sent[1].status = 400
    /\ sent[1].body.value.errorType = "prompt_blocked"

\* the reply has none of the six shapes the extractor knows
MatchesNoShape(reply) ==
    /\ reply.t # "str"
    /\ \/ reply.t # "obj"
       \/ /\ ~( /\ reply.output.t = "arr"
                /\ \E k \in 1..Len(reply.output.v) :
                     LET item == reply.output.v[k] IN
                     /\ item.t = "obj" /\ item.type = Str("message")
                     /\ item.content.t = "arr"
                     /\ \E n \in 1..Len(item.content.v) :
                          item.content.v[n].type = Str("output_text") )
          /\ reply.response = Undef
          /\ reply.content = Undef
          /\ reply.choices = Undef
          /\ reply.result = Undef

\* C7 as stated: a successful call whose reply has none of the six shapes is
\* answered 200 with the fixed fallback text.
C7_AsStated ==
    pc = "done" /\ settled.kind = "resolved" /\ MatchesNoShape(settled.value) =>
      /\ sent[1].status = 200
      /\ sent[1].body.value = SuccessBody(Str(FallbackText))

\* what each strategy finds in an object reply, in the order 2 to 6
Candidates(reply) ==
    LET out == reply.output
        msgs == IF out.t = "arr"
                THEN { k \in 1..Len(out.v) :
                         out.v[k].t = "obj" /\ out.v[k].type = Str("message") }
                ELSE {}
        content == IF msgs = {} THEN Undef
                   ELSE out.v[CHOOSE n \in msgs : \A m \in msgs : n <= m].content
        texts == IF content.t = "arr"
                 THEN { k \in 1..Len(content.v) :
                          content.v[k].type = Str("output_text") }
                 ELSE {}
        shape2 == IF texts = {} THEN Undef
                  ELSE content.v[CHOOSE n \in texts : \A m \in texts : n <= m].text
        shape5 == IF reply.choices.t = "arr" /\ Len(reply.choices.v) > 0
                  THEN reply.choices.v[1].message.content
                  ELSE Undef
        shape6 == IF reply.result.t = "obj" THEN reply.result.response ELSE Undef
    IN  <<shape2, reply.response, reply.content, shape5, shape6>>

IsJson(response) ==
    /\ response.body.kind = "json"
    /\ <<"content-type", "application/json">> \in response.headers

\* C9 as stated: every response the worker builds (all but those it hands on
\* from the static assets) is JSON with the JSON content type.
C9_AsStated ==
    \A k \in 1..Len(sent) : sent[k].body.kind # "asset" => IsJson(sent[k])

\* C9 amended: every response of handleChatRequest, that is every response to
\* a POST to /api/chat, is JSON with the JSON content type.
C9_ChatAnswersJson ==
    pc = "done" /\ IsChatRequest =>
      /\ Len(sent) = 1
      /\ IsJson(sent[1])

C9_Witness ==
    /\ pc = "done" /\ IsChatRequest
    /\ settled.kind = "rejected"
    /\ sent[1].status = 500
    /\ IsJson(sent[1])

Answered ==
    /\ pc = "done"
    /\ Len(sent) = 1
    /\ sent[1].status \in {200, 400, 500}

\* C10: a chat request invokes the remote model at most once, never again
\* after the call has failed, and ends with exactly one response, of status
\* 200, 400 or 500.
C10_OneCallOneAnswer ==
    /\ [](Len(aiRuns) <= 1 /\ Len(sent) <= 1)
    /\ [][settled.kind = "rejected" => aiRuns' = aiRuns]_vars
    /\ (IsChatRequest ~> Answered)

C10_Witness ==
    /\ pc = "done" /\ IsChatRequest
    /\ settled.kind = "rejected"
    /\ Len(aiRuns) = 1
    /\ Len(sent) = 1

====
